---------------------------- MODULE Spec2Model ----------------------------
(***************************************************************************)
(* Model of the Biomedical NER & Summarization API (src/model).            *)
(*                                                                         *)
(* server.py keeps two module globals, ner_model and summarizer_model,     *)
(* both None at import.  startup_event constructs the two service objects  *)
(* (BiomedicalNER, BiomedicalSummarizer), whose constructors load the      *)
(* engines.  Seven request handlers read the globals.  Every handler and   *)
(* startup_event is an `async def` without a single await, so each runs    *)
(* to completion on the event loop: one action each.                       *)
(*                                                                         *)
(* The inference engines (transformers pipelines) and the artifact loads   *)
(* are black boxes: every call of one draws its outcome (a value or an     *)
(* exception) from a small set.                                            *)
(*                                                                         *)
(* A text is a sequence of one-character strings.  An object is a record   *)
(* with a cls field; Python's None is the record None.                     *)
(***************************************************************************)
EXTENDS Integers, Sequences, FiniteSets

VARIABLES
    ner_model,          \* server.py:30 / biomedical_ner.py:81   (module global)
    summarizer_model,   \* server.py:31 / biomedical_summarizer.py:98
    lifecycle,          \* "imported", "started" (startup returned), "startup_failed" (it raised)
    loads,              \* per engine: how many times load_model has been entered
    load_failed,        \* per engine: whether a load_model of it has raised
    req,                \* the request (or direct call) being answered, None when idle
    resp,               \* its response or result, None when idle
    calls,              \* the engine invocations made for it, in order
    trace,              \* the steps the handler went through, in order
    tasks,              \* event loop: the request coroutine of each connection
    current             \* event loop: the coroutine it is running

vars == <<ner_model, summarizer_model, lifecycle, loads, load_failed,
          req, resp, calls, trace, tasks, current>>

-----------------------------------------------------------------------------
(* Bounds of the model. *)

MaxTextLen == 5         \* longest request text, in characters
MaxSummaryLen == 3      \* longest text the summarization engine returns
MaxSpans == 2           \* most spans the token-classification engine returns
MaxTasks == 2           \* most requests the event loop holds at once

-----------------------------------------------------------------------------
(* Python values. *)

None == [cls |-> "NoneType"]

\* `not x` for an object reference (None is the only falsy one: the classes
\* define neither __bool__ nor __len__) and for a str (the empty one is falsy).
NotObj(x) == x = None
NotStr(t) == t = <<>>

\* Characters: one word character and one whitespace character.
Whitespace == {" "}
Chars == {"a"} \cup Whitespace

SeqsUpTo(S, n) == UNION {[1..k -> S] : k \in 0..n}

Texts == SeqsUpTo(Chars, MaxTextLen)

IsSpace(c) == c \in Whitespace

RECURSIVE LStrip(_)
LStrip(t) ==
    IF t = <<>> THEN t
    ELSE IF IsSpace(Head(t)) THEN LStrip(Tail(t)) ELSE t

RECURSIVE RStrip(_)
RStrip(t) ==
    IF t = <<>> THEN t
    ELSE IF IsSpace(t[Len(t)]) THEN RStrip(SubSeq(t, 1, Len(t) - 1)) ELSE t

\* str.strip(): leading and trailing whitespace removed.
Strip(t) == RStrip(LStrip(t))

\* str.split(): the maximal runs of non-whitespace characters, in order.
\* cur is the word being read, acc the words read so far.
RECURSIVE SplitAcc(_, _, _)
SplitAcc(t, cur, acc) ==
    IF t = <<>> THEN (IF cur = <<>> THEN acc ELSE Append(acc, cur))
    ELSE IF IsSpace(Head(t))
         THEN SplitAcc(Tail(t), <<>>, IF cur = <<>> THEN acc ELSE Append(acc, cur))
         ELSE SplitAcc(Tail(t), Append(cur, Head(t)), acc)

Split(t) == SplitAcc(t, <<>>, <<>>)

\* round(num / den, 2) as an integer number of hundredths (den > 0, num >= 0):
\* the nearest hundredth, an exact tie going to the even one.  Python rounds
\* the double num / den; for the word counts of this model (den below 8) no
\* quotient is a tie, and the double rounds as the exact quotient does.
RoundRatio(num, den) ==
    LET q == (100 * num) \div den
        r == (100 * num) % den
    IN  IF 2 * r < den THEN q
        ELSE IF 2 * r > den THEN q + 1
        ELSE IF q % 2 = 0 THEN q ELSE q + 1

\* round(score, 2) of an engine score given in thousandths, in hundredths.
RoundScore(thousandths) == RoundRatio(thousandths, 1000)

-----------------------------------------------------------------------------
(* Outcomes of a black-box call: a value, or an exception. *)

Ok(v) == [raised |-> FALSE, value |-> v]
Raise(e) == [raised |-> TRUE, exc |-> e]

\* What one artifact load does: it succeeds, or one of the three steps of
\* load_model raises.
LoadOutcomes == {"ok", "tokenizer_fails", "model_fails", "pipeline_fails"}

\* The spans the token-classification engine may return (score in thousandths).
SpanStarts == {0, 2}
EngineSpans ==
    {[word |-> <<"a">>, entity_group |-> "Disease", score |-> 987,
      start |-> s, end |-> s + 1] : s \in SpanStarts}

NerOutcomes ==
    {Raise("RuntimeError")} \cup {Ok(r) : r \in SeqsUpTo(EngineSpans, MaxSpans)}

SumOutcomes ==
    {Raise("RuntimeError")} \cup {Ok(t) : t \in SeqsUpTo(Chars, MaxSummaryLen)}

\* One outcome per engine, for the calls a request may make.
EngineOracles == [ner : NerOutcomes, summarizer : SumOutcomes]

-----------------------------------------------------------------------------
(* biomedical_ner.py: class BiomedicalNER. *)

\* load_model logging the failure and returning: the constructor returns an
\* object whose later attributes are still None.
BiomedicalNER_load_model_swallowed(self, outcome) ==
    LET s1 == IF outcome = "tokenizer_fails" THEN self
              ELSE [self EXCEPT !.tokenizer = [cls |-> "Tokenizer"]]
        s2 == IF outcome \in {"tokenizer_fails", "model_fails"} THEN s1
              ELSE [s1 EXCEPT !.model = [cls |-> "TokenClassificationModel"]]
        s3 == IF outcome # "ok" THEN s2
              ELSE [s2 EXCEPT !.nlp = [cls |-> "Pipeline", task |-> "ner"]]
    IN  [raised |-> FALSE, self |-> s3]

\* load_model: tokenizer, then model, then pipeline; the first failure raises
\* and leaves the later attributes None.
BiomedicalNER_load_model(self, outcome) ==
    LET s1 == IF outcome = "tokenizer_fails" THEN self
              ELSE [self EXCEPT !.tokenizer = [cls |-> "Tokenizer"]]
        s2 == IF outcome \in {"tokenizer_fails", "model_fails"} THEN s1
              ELSE [s1 EXCEPT !.model = [cls |-> "TokenClassificationModel"]]
        s3 == IF outcome # "ok" THEN s2
              ELSE [s2 EXCEPT !.nlp = [cls |-> "Pipeline", task |-> "ner"]]
    IN  [raised |-> outcome # "ok", self |-> s3]

\* __init__: the three attributes start None, then load_model runs; an
\* exception of load_model leaves the constructor, and no object is returned.
BiomedicalNER_init(outcome, id) ==
    BiomedicalNER_load_model(
        [cls |-> "BiomedicalNER", id |-> id, model_name |-> "d4data/biomedical-ner-all",
         tokenizer |-> None, model |-> None, nlp |-> None],
        outcome)

\* lines 48-55: one engine span as an entity dict.
FormatEntity(entity) ==
    [word |-> entity.word,
     entity_group |-> entity.entity_group,
     score |-> RoundScore(entity.score),
     start |-> IF "start" \in DOMAIN entity THEN entity.start ELSE 0,
     end |-> IF "end" \in DOMAIN entity THEN entity.end ELSE 0]

\* extract_entities(self, text) with `out` the outcome of self.nlp(text).
\* There is no check of the text here.
BiomedicalNER_extract_entities(self, text, out) ==
    LET call == [engine |-> "ner", text |-> text, out |-> out]
    IN  IF NotObj(self.nlp)
        THEN [raised |-> TRUE, exc |-> "ValueError: Model not loaded properly",
              calls |-> <<>>, trace |-> <<"svc_loaded">>]
        ELSE IF out.raised
        THEN [raised |-> TRUE, exc |-> out.exc,
              calls |-> <<call>>, trace |-> <<"svc_loaded", "engine_ner">>]
        ELSE [raised |-> FALSE,
              value |-> [i \in 1..Len(out.value) |-> FormatEntity(out.value[i])],
              calls |-> <<call>>, trace |-> <<"svc_loaded", "engine_ner">>]

\* print_entities(self, text) (lines 62-76): extract_entities, whose result
\* is printed and returned.
BiomedicalNER_print_entities(self, text, out) ==
    BiomedicalNER_extract_entities(self, text, out)

-----------------------------------------------------------------------------
(* biomedical_summarizer.py: class BiomedicalSummarizer. *)

BiomedicalSummarizer_load_model(self, outcome) ==
    LET s1 == IF outcome = "tokenizer_fails" THEN self
              ELSE [self EXCEPT !.tokenizer = [cls |-> "Tokenizer"]]
        s2 == IF outcome \in {"tokenizer_fails", "model_fails"} THEN s1
              ELSE [s1 EXCEPT !.model = [cls |-> "Seq2SeqModel"]]
        s3 == IF outcome # "ok" THEN s2
              ELSE [s2 EXCEPT !.summarizer = [cls |-> "Pipeline", task |-> "summarization"]]
    IN  [raised |-> outcome # "ok", self |-> s3]

BiomedicalSummarizer_init(outcome, id) ==
    BiomedicalSummarizer_load_model(
        [cls |-> "BiomedicalSummarizer", id |-> id, model_name |-> "facebook/bart-large-cnn",
         tokenizer |-> None, model |-> None, summarizer |-> None],
        outcome)

\* def summarize_text(self, text, max_length=60, min_length=20, do_sample=False)
ServiceDefaultMaxLength == 60
ServiceDefaultMinLength == 20

\* The result dict with the lengths counted in characters (len(text))
\* instead of words (len(text.split())).
SummaryDict_chars(text, summary_text, max_length, min_length) ==
    IF Len(text) = 0
    THEN Raise("ZeroDivisionError: division by zero")
    ELSE Ok([original_text |-> text,
             summary |-> summary_text,
             original_length |-> Len(text),
             summary_length |-> Len(summary_text),
             compression_ratio |-> RoundRatio(Len(summary_text), Len(text)),
             max_length |-> max_length,
             min_length |-> min_length])

\* lines 60-68: the result dict.  Its values are evaluated in order, so the
\* division of compression_ratio raises ZeroDivisionError when the text has
\* no word.
SummaryDict(text, summary_text, max_length, min_length) ==
    IF Len(Split(text)) = 0
    THEN Raise("ZeroDivisionError: division by zero")
    ELSE Ok([original_text |-> text,
             summary |-> summary_text,
             original_length |-> Len(Split(text)),
             summary_length |-> Len(Split(summary_text)),
             compression_ratio |-> RoundRatio(Len(Split(summary_text)), Len(Split(text))),
             max_length |-> max_length,
             min_length |-> min_length])

\* summarize_text testing `not text` where the code tests `not text.strip()`.
BiomedicalSummarizer_summarize_text_unstripped(self, text, max_length, min_length, do_sample, out) ==
    LET call == [engine |-> "summarizer", text |-> text, max_length |-> max_length,
                 min_length |-> min_length, do_sample |-> do_sample, out |-> out]
        d == SummaryDict(text, out.value, max_length, min_length)
    IN  IF NotObj(self.summarizer)
        THEN [raised |-> TRUE, exc |-> "ValueError: Summarization model not loaded properly",
              calls |-> <<>>, trace |-> <<"svc_loaded">>]
        ELSE IF NotStr(text)
        THEN [raised |-> TRUE, exc |-> "ValueError: Text input cannot be empty",
              calls |-> <<>>, trace |-> <<"svc_loaded", "svc_validate">>]
        ELSE IF out.raised
        THEN [raised |-> TRUE, exc |-> out.exc, calls |-> <<call>>,
              trace |-> <<"svc_loaded", "svc_validate", "engine_summarizer">>]
        ELSE IF d.raised
        THEN [raised |-> TRUE, exc |-> d.exc, calls |-> <<call>>,
              trace |-> <<"svc_loaded", "svc_validate", "engine_summarizer", "ratio">>]
        ELSE [raised |-> FALSE, value |-> d.value, calls |-> <<call>>,
              trace |-> <<"svc_loaded", "svc_validate", "engine_summarizer", "ratio">>]

\* summarize_text(self, text, max_length, min_length, do_sample) with `out`
\* the outcome of self.summarizer(text, ...).
BiomedicalSummarizer_summarize_text(self, text, max_length, min_length, do_sample, out) ==
    LET call == [engine |-> "summarizer", text |-> text, max_length |-> max_length,
                 min_length |-> min_length, do_sample |-> do_sample, out |-> out]
        d == SummaryDict(text, out.value, max_length, min_length)
    IN  IF NotObj(self.summarizer)
        THEN [raised |-> TRUE, exc |-> "ValueError: Summarization model not loaded properly",
              calls |-> <<>>, trace |-> <<"svc_loaded">>]
        ELSE IF NotStr(Strip(text))
        THEN [raised |-> TRUE, exc |-> "ValueError: Text input cannot be empty",
              calls |-> <<>>, trace |-> <<"svc_loaded", "svc_validate">>]
        ELSE IF out.raised
        THEN [raised |-> TRUE, exc |-> out.exc, calls |-> <<call>>,
              trace |-> <<"svc_loaded", "svc_validate", "engine_summarizer">>]
        ELSE IF d.raised
        THEN [raised |-> TRUE, exc |-> d.exc, calls |-> <<call>>,
              trace |-> <<"svc_loaded", "svc_validate", "engine_summarizer", "ratio">>]
        ELSE [raised |-> FALSE, value |-> d.value, calls |-> <<call>>,
              trace |-> <<"svc_loaded", "svc_validate", "engine_summarizer", "ratio">>]

\* print_summary(self, text, **kwargs) (lines 73-93): summarize_text, whose
\* result is printed and returned; its exception passes through.
BiomedicalSummarizer_print_summary(self, text, kwargs, out) ==
    BiomedicalSummarizer_summarize_text(self, text,
        IF "max_length" \in DOMAIN kwargs THEN kwargs.max_length ELSE ServiceDefaultMaxLength,
        IF "min_length" \in DOMAIN kwargs THEN kwargs.min_length ELSE ServiceDefaultMinLength,
        IF "do_sample" \in DOMAIN kwargs THEN kwargs.do_sample ELSE FALSE,
        out)

-----------------------------------------------------------------------------
(* server.py: request and response models. *)

DefaultMaxLength == 60
DefaultMinLength == 20

\* The JSON bodies a client may send: a text alone, or a text with the three
\* generation parameters (here with min_length above max_length, which
\* nothing validates).
TextPayloads == {[text |-> t] : t \in Texts}
ParamPayloads ==
    {[text |-> t, max_length |-> 10, min_length |-> 20, do_sample |-> TRUE] : t \in Texts}
SummarizationPayloads == TextPayloads \cup ParamPayloads

\* class TextInput: the text field.
TextInput(payload) == [text |-> payload.text]

\* class SummarizationInput: the text field and the defaulted parameters.
SummarizationInput(payload) ==
    [text |-> payload.text,
     max_length |-> IF "max_length" \in DOMAIN payload
                    THEN payload.max_length ELSE DefaultMaxLength,
     min_length |-> IF "min_length" \in DOMAIN payload
                    THEN payload.min_length ELSE DefaultMinLength,
     do_sample |-> IF "do_sample" \in DOMAIN payload
                   THEN payload.do_sample ELSE FALSE]

\* raise HTTPException(status_code, detail), as the response the client gets.
HTTPException(status_code, detail) ==
    [status |-> status_code, body |-> [detail |-> detail]]

\* A returned value, as the 200 response the client gets.
Returned(body) == [status |-> 200, body |-> body]

\* What running a handler gives: the module globals after it (no handler
\* rebinds them), the engines whose load_model it entered (none does), the
\* response, the engine calls made and the steps taken.
Outcome(g, response, engine_calls, steps) ==
    [g |-> g, entered |-> <<>>, resp |-> response, calls |-> engine_calls, trace |-> steps]

-----------------------------------------------------------------------------
(* server.py: startup and the handlers.  g holds the module globals the code *)
(* reads; eng holds the outcome of each engine call the handler may make.    *)

\* startup_event with the exception logged and not raised again.
startup_event_swallowed(g, n, outcome) ==
    LET a == BiomedicalNER_init(outcome.ner, n.ner + 1)
        b == BiomedicalSummarizer_init(outcome.summarizer, n.summarizer + 1)
    IN  IF a.raised
        THEN [raised |-> FALSE, g |-> g, entered |-> <<"ner">>, failed |-> {"ner"}]
        ELSE IF b.raised
        THEN [raised |-> FALSE, g |-> [g EXCEPT !.ner_model = a.self],
              entered |-> <<"ner", "summarizer">>, failed |-> {"summarizer"}]
        ELSE [raised |-> FALSE,
              g |-> [ner_model |-> a.self, summarizer_model |-> b.self],
              entered |-> <<"ner", "summarizer">>, failed |-> {}]

\* startup_event (lines 64-80): construct the NER service, then the
\* summarization service; an exception of either constructor is logged and
\* raised again, and the assignment it interrupted does not happen.
\* n counts the load_model entries so far (an object's id).
startup_event(g, n, outcome) ==
    LET a == BiomedicalNER_init(outcome.ner, n.ner + 1)
        b == BiomedicalSummarizer_init(outcome.summarizer, n.summarizer + 1)
    IN  IF a.raised
        THEN [raised |-> TRUE, g |-> g, entered |-> <<"ner">>, failed |-> {"ner"}]
        ELSE IF b.raised
        THEN [raised |-> TRUE, g |-> [g EXCEPT !.ner_model = a.self],
              entered |-> <<"ner", "summarizer">>, failed |-> {"summarizer"}]
        ELSE [raised |-> FALSE,
              g |-> [ner_model |-> a.self, summarizer_model |-> b.self],
              entered |-> <<"ner", "summarizer">>, failed |-> {}]

\* GET / (lines 82-92).
root(g) ==
    Outcome(g,
        Returned([message |-> "Biomedical NER & Summarization API",
                  status |-> "active",
                  models |-> [ner |-> "d4data/biomedical-ner-all",
                              summarization |-> "facebook/bart-large-cnn"]]),
        <<>>, <<>>)

\* GET /health (lines 94-103).
health_check(g) ==
    Outcome(g,
        Returned([status |-> "healthy",
                  models_loaded |-> [ner |-> g.ner_model # None,
                                     summarizer |-> g.summarizer_model # None]]),
        <<>>, <<>>)

\* extract_entities with the combined operation's readiness check (both
\* globals).
extract_entities_both(g, input_data, eng) ==
    LET r == BiomedicalNER_extract_entities(g.ner_model, input_data.text, eng.ner)
    IN  IF NotObj(g.ner_model) \/ NotObj(g.summarizer_model)
        THEN Outcome(g, HTTPException(503, "Model not loaded"), <<>>, <<"readiness">>)
        ELSE IF NotStr(Strip(input_data.text))
        THEN Outcome(g, HTTPException(400, "Text input cannot be empty"),
                     <<>>, <<"readiness", "validate">>)
        ELSE IF r.raised
        THEN Outcome(g, HTTPException(500, r.exc),
                     r.calls, <<"readiness", "validate">> \o r.trace)
        ELSE Outcome(g,
                     Returned([input_text |-> input_data.text,
                               entities |-> r.value,
                               total_entities |-> Len(r.value)]),
                     r.calls, <<"readiness", "validate">> \o r.trace)

\* extract_entities without `except HTTPException: raise`: the 503 and the
\* 400 it raised itself are caught by `except Exception` and answered 500.
extract_entities_catchall(g, input_data, eng) ==
    LET r == BiomedicalNER_extract_entities(g.ner_model, input_data.text, eng.ner)
    IN  IF NotObj(g.ner_model)
        THEN Outcome(g, HTTPException(500, "Model not loaded"), <<>>, <<"readiness">>)
        ELSE IF NotStr(Strip(input_data.text))
        THEN Outcome(g, HTTPException(500, "Text input cannot be empty"),
                     <<>>, <<"readiness", "validate">>)
        ELSE IF r.raised
        THEN Outcome(g, HTTPException(500, r.exc),
                     r.calls, <<"readiness", "validate">> \o r.trace)
        ELSE Outcome(g,
                     Returned([input_text |-> input_data.text,
                               entities |-> r.value,
                               total_entities |-> Len(r.value)]),
                     r.calls, <<"readiness", "validate">> \o r.trace)

\* POST /extract-entities (lines 105-148).  An exception that is not an
\* HTTPException becomes a 500 whose detail carries its message.
extract_entities(g, input_data, eng) ==
    LET r == BiomedicalNER_extract_entities(g.ner_model, input_data.text, eng.ner)
    IN  IF NotObj(g.ner_model)
        THEN Outcome(g, HTTPException(503, "Model not loaded"), <<>>, <<"readiness">>)
        ELSE IF NotStr(Strip(input_data.text))
        THEN Outcome(g, HTTPException(400, "Text input cannot be empty"),
                     <<>>, <<"readiness", "validate">>)
        ELSE IF r.raised
        THEN Outcome(g, HTTPException(500, r.exc),
                     r.calls, <<"readiness", "validate">> \o r.trace)
        ELSE Outcome(g,
                     Returned([input_text |-> input_data.text,
                               entities |-> r.value,
                               total_entities |-> Len(r.value)]),
                     r.calls, <<"readiness", "validate">> \o r.trace)

\* analyze_text dropping the service when its engine raises (global
\* ner_model rebound to None).
analyze_text_dropping(g, input_data, eng) ==
    LET r == BiomedicalNER_extract_entities(g.ner_model, input_data.text, eng.ner)
    IN  IF NotObj(g.ner_model)
        THEN Outcome(g, HTTPException(503, "Model not loaded"), <<>>, <<"readiness">>)
        ELSE IF r.raised
        THEN Outcome([g EXCEPT !.ner_model = None], HTTPException(500, r.exc),
                     r.calls, <<"readiness">> \o r.trace)
        ELSE Outcome(g,
                     Returned([text |-> input_data.text,
                               entities |-> r.value,
                               count |-> Len(r.value)]),
                     r.calls, <<"readiness">> \o r.trace)

\* POST /analyze (lines 150-177): the readiness check, then the service; the
\* text is not looked at.
analyze_text(g, input_data, eng) ==
    LET r == BiomedicalNER_extract_entities(g.ner_model, input_data.text, eng.ner)
    IN  IF NotObj(g.ner_model)
        THEN Outcome(g, HTTPException(503, "Model not loaded"), <<>>, <<"readiness">>)
        ELSE IF r.raised
        THEN Outcome(g, HTTPException(500, r.exc), r.calls, <<"readiness">> \o r.trace)
        ELSE Outcome(g,
                     Returned([text |-> input_data.text,
                               entities |-> r.value,
                               count |-> Len(r.value)]),
                     r.calls, <<"readiness">> \o r.trace)

\* summarize_text retrying the load on demand: with the global None it
\* constructs the service again, binds the global and asks the client to
\* come back.
summarize_text_lazy(g, input_data, eng) ==
    LET made == BiomedicalSummarizer_init("ok", 2).self
        r == BiomedicalSummarizer_summarize_text(g.summarizer_model, input_data.text,
                 input_data.max_length, input_data.min_length, input_data.do_sample,
                 eng.summarizer)
    IN  IF NotObj(g.summarizer_model)
        THEN [g |-> [g EXCEPT !.summarizer_model = made],
              entered |-> <<"summarizer">>,
              resp |-> HTTPException(503, "Summarization model not loaded"),
              calls |-> <<>>, trace |-> <<"readiness">>]
        ELSE IF NotStr(Strip(input_data.text))
        THEN Outcome(g, HTTPException(400, "Text input cannot be empty"),
                     <<>>, <<"readiness", "validate">>)
        ELSE IF r.raised
        THEN Outcome(g, HTTPException(500, r.exc),
                     r.calls, <<"readiness", "validate">> \o r.trace)
        ELSE Outcome(g, Returned(r.value),
                     r.calls, <<"readiness", "validate">> \o r.trace)

\* POST /summarize (lines 179-211).
summarize_text(g, input_data, eng) ==
    LET r == BiomedicalSummarizer_summarize_text(g.summarizer_model, input_data.text,
                 input_data.max_length, input_data.min_length, input_data.do_sample,
                 eng.summarizer)
    IN  IF NotObj(g.summarizer_model)
        THEN Outcome(g, HTTPException(503, "Summarization model not loaded"),
                     <<>>, <<"readiness">>)
        ELSE IF NotStr(Strip(input_data.text))
        THEN Outcome(g, HTTPException(400, "Text input cannot be empty"),
                     <<>>, <<"readiness", "validate">>)
        ELSE IF r.raised
        THEN Outcome(g, HTTPException(500, r.exc),
                     r.calls, <<"readiness", "validate">> \o r.trace)
        ELSE Outcome(g, Returned(r.value),
                     r.calls, <<"readiness", "validate">> \o r.trace)

\* summarize_simple without its readiness check: with the global None the
\* attribute access raises, and the handler answers 500.
summarize_simple_unchecked(g, input_data, eng) ==
    LET r == BiomedicalSummarizer_summarize_text(g.summarizer_model, input_data.text,
                 ServiceDefaultMaxLength, ServiceDefaultMinLength, FALSE, eng.summarizer)
    IN  IF NotStr(Strip(input_data.text))
        THEN Outcome(g, HTTPException(400, "Text input cannot be empty"),
                     <<>>, <<"validate">>)
        ELSE IF NotObj(g.summarizer_model)
        THEN Outcome(g, HTTPException(500, "AttributeError: 'NoneType' object has no attribute 'summarize_text'"),
                     <<>>, <<"validate">>)
        ELSE IF r.raised
        THEN Outcome(g, HTTPException(500, r.exc), r.calls, <<"validate">> \o r.trace)
        ELSE Outcome(g,
                     Returned([original_text |-> r.value.original_text,
                               summary |-> r.value.summary,
                               compression_ratio |-> r.value.compression_ratio]),
                     r.calls, <<"validate">> \o r.trace)

\* POST /summarize-simple (lines 213-243): the service's default parameters.
summarize_simple(g, input_data, eng) ==
    LET r == BiomedicalSummarizer_summarize_text(g.summarizer_model, input_data.text,
                 ServiceDefaultMaxLength, ServiceDefaultMinLength, FALSE, eng.summarizer)
    IN  IF NotObj(g.summarizer_model)
        THEN Outcome(g, HTTPException(503, "Summarization model not loaded"),
                     <<>>, <<"readiness">>)
        ELSE IF NotStr(Strip(input_data.text))
        THEN Outcome(g, HTTPException(400, "Text input cannot be empty"),
                     <<>>, <<"readiness", "validate">>)
        ELSE IF r.raised
        THEN Outcome(g, HTTPException(500, r.exc),
                     r.calls, <<"readiness", "validate">> \o r.trace)
        ELSE Outcome(g,
                     Returned([original_text |-> r.value.original_text,
                               summary |-> r.value.summary,
                               compression_ratio |-> r.value.compression_ratio]),
                     r.calls, <<"readiness", "validate">> \o r.trace)

\* extract_and_summarize with a summarization failure answered by the
\* entities alone (a partial 200).
extract_and_summarize_partial(g, input_data, eng) ==
    LET e == BiomedicalNER_extract_entities(g.ner_model, input_data.text, eng.ner)
        r == BiomedicalSummarizer_summarize_text(g.summarizer_model, input_data.text,
                 input_data.max_length, input_data.min_length, input_data.do_sample,
                 eng.summarizer)
    IN  IF NotObj(g.ner_model) \/ NotObj(g.summarizer_model)
        THEN Outcome(g, HTTPException(503, "One or more models not loaded"),
                     <<>>, <<"readiness">>)
        ELSE IF NotStr(Strip(input_data.text))
        THEN Outcome(g, HTTPException(400, "Text input cannot be empty"),
                     <<>>, <<"readiness", "validate">>)
        ELSE IF e.raised
        THEN Outcome(g, HTTPException(500, e.exc),
                     e.calls, <<"readiness", "validate">> \o e.trace)
        ELSE IF r.raised
        THEN Outcome(g,
                     Returned([original_text |-> input_data.text,
                               entities |-> e.value,
                               total_entities |-> Len(e.value)]),
                     e.calls \o r.calls, <<"readiness", "validate">> \o e.trace \o r.trace)
        ELSE Outcome(g,
                     Returned([original_text |-> input_data.text,
                               summary |-> r.value.summary,
                               entities |-> e.value,
                               total_entities |-> Len(e.value),
                               compression_ratio |-> r.value.compression_ratio,
                               original_length |-> r.value.original_length,
                               summary_length |-> r.value.summary_length]),
                     e.calls \o r.calls, <<"readiness", "validate">> \o e.trace \o r.trace)

\* POST /extract-and-summarize (lines 245-288): the entity service, then the
\* summarization service; the first exception ends the request.
extract_and_summarize(g, input_data, eng) ==
    LET e == BiomedicalNER_extract_entities(g.ner_model, input_data.text, eng.ner)
        r == BiomedicalSummarizer_summarize_text(g.summarizer_model, input_data.text,
                 input_data.max_length, input_data.min_length, input_data.do_sample,
                 eng.summarizer)
    IN  IF NotObj(g.ner_model) \/ NotObj(g.summarizer_model)
        THEN Outcome(g, HTTPException(503, "One or more models not loaded"),
                     <<>>, <<"readiness">>)
        ELSE IF NotStr(Strip(input_data.text))
        THEN Outcome(g, HTTPException(400, "Text input cannot be empty"),
                     <<>>, <<"readiness", "validate">>)
        ELSE IF e.raised
        THEN Outcome(g, HTTPException(500, e.exc),
                     e.calls, <<"readiness", "validate">> \o e.trace)
        ELSE IF r.raised
        THEN Outcome(g, HTTPException(500, r.exc),
                     e.calls \o r.calls, <<"readiness", "validate">> \o e.trace \o r.trace)
        ELSE Outcome(g,
                     Returned([original_text |-> input_data.text,
                               summary |-> r.value.summary,
                               entities |-> e.value,
                               total_entities |-> Len(e.value),
                               compression_ratio |-> r.value.compression_ratio,
                               original_length |-> r.value.original_length,
                               summary_length |-> r.value.summary_length]),
                     e.calls \o r.calls, <<"readiness", "validate">> \o e.trace \o r.trace)

-----------------------------------------------------------------------------
(* The server process. *)

Engines == {"ner", "summarizer"}

\* The module globals, as the handlers read them.
Globals == [ner_model |-> ner_model, summarizer_model |-> summarizer_model]

Idle == req = None

\* The connections the event loop serves, and a connection with no request.
Tasks == 1..MaxTasks
FreeTask == [st |-> "free"]

\* What the event loop is running: nothing, the startup coroutine, or the
\* request coroutine of connection t.
LoopIdle == [who |-> "nobody"]
StartupRuns == [who |-> "startup"]
TaskRuns(t) == [who |-> "task", id |-> t]

\* server.py:29-31: both globals None; nothing loaded, no request yet.
Init ==
    /\ ner_model = None
    /\ summarizer_model = None
    /\ lifecycle = "imported"
    /\ loads = [e \in Engines |-> 0]
    /\ load_failed = [e \in Engines |-> FALSE]
    /\ req = None
    /\ resp = None
    /\ calls = <<>>
    /\ trace = <<>>
    /\ tasks = [t \in Tasks |-> FreeTask]
    /\ current = LoopIdle

InSeq(x, s) == \E i \in 1..Len(s) : s[i] = x

\* The startup event (@app.on_event("startup"), line 64): the framework runs
\* it once per process, and no request is being answered while it runs.
Startup ==
    /\ lifecycle = "imported"
    /\ Idle
    /\ \E outcome \in [ner : LoadOutcomes, summarizer : LoadOutcomes] :
        LET r == startup_event(Globals, loads, outcome)
        IN  /\ ner_model' = r.g.ner_model
            /\ summarizer_model' = r.g.summarizer_model
            /\ lifecycle' = IF r.raised THEN "startup_failed" ELSE "started"
            /\ loads' = [e \in Engines |->
                            loads[e] + (IF InSeq(e, r.entered) THEN 1 ELSE 0)]
            /\ load_failed' = [e \in Engines |-> load_failed[e] \/ e \in r.failed]
            /\ UNCHANGED <<req, resp, calls, trace, tasks, current>>

\* One request answered by its handler, whose run gave r.
Handle(op, input_data, r) ==
    /\ req' = [op |-> op, input |-> input_data]
    /\ resp' = r.resp
    /\ calls' = r.calls
    /\ trace' = r.trace
    /\ ner_model' = r.g.ner_model
    /\ summarizer_model' = r.g.summarizer_model
    /\ loads' = [e \in Engines |-> loads[e] + (IF InSeq(e, r.entered) THEN 1 ELSE 0)]
    /\ UNCHANGED <<lifecycle, load_failed, tasks, current>>

NoInput == [cls |-> "NoneType"]

GetRoot ==
    /\ Idle
    /\ Handle("root", NoInput, root(Globals))

GetHealth ==
    /\ Idle
    /\ Handle("health", NoInput, health_check(Globals))

PostExtractEntities ==
    /\ Idle
    /\ \E payload \in TextPayloads, eng \in EngineOracles :
           Handle("extract_entities", TextInput(payload),
                  extract_entities(Globals, TextInput(payload), eng))

PostAnalyze ==
    /\ Idle
    /\ \E payload \in TextPayloads, eng \in EngineOracles :
           Handle("analyze", TextInput(payload),
                  analyze_text(Globals, TextInput(payload), eng))

PostSummarize ==
    /\ Idle
    /\ \E payload \in SummarizationPayloads, eng \in EngineOracles :
           Handle("summarize", SummarizationInput(payload),
                  summarize_text(Globals, SummarizationInput(payload), eng))

PostSummarizeSimple ==
    /\ Idle
    /\ \E payload \in TextPayloads, eng \in EngineOracles :
           Handle("summarize_simple", TextInput(payload),
                  summarize_simple(Globals, TextInput(payload), eng))

PostExtractAndSummarize ==
    /\ Idle
    /\ \E payload \in SummarizationPayloads, eng \in EngineOracles :
           Handle("extract_and_summarize", SummarizationInput(payload),
                  extract_and_summarize(Globals, SummarizationInput(payload), eng))

\* The response leaves; the request's frame is gone.
SendResponse ==
    /\ ~Idle
    /\ req' = None
    /\ resp' = None
    /\ calls' = <<>>
    /\ trace' = <<>>
    /\ UNCHANGED <<ner_model, summarizer_model, lifecycle, loads, load_failed, tasks, current>>

Next ==
    \/ Startup
    \/ GetRoot
    \/ GetHealth
    \/ PostExtractEntities
    \/ PostAnalyze
    \/ PostSummarize
    \/ PostSummarizeSimple
    \/ PostExtractAndSummarize
    \/ SendResponse

Spec == Init /\ [][Next]_vars

-----------------------------------------------------------------------------
(* The services used directly, as the two modules' __main__ blocks and      *)
(* demo.py use them: each service is constructed into its global, and its   *)
(* methods are then called on a text.  A constructor that raises ends the   *)
(* script (lifecycle "startup_failed").                                     *)

\* The keyword arguments a caller may pass to print_summary.
KwargChoices ==
    {[cls |-> "dict"], [cls |-> "dict", max_length |-> 10, min_length |-> 20, do_sample |-> TRUE]}

\* ner_model = BiomedicalNER()  (biomedical_ner.py:81, demo.py:32).
MainConstructNER ==
    /\ lifecycle = "imported"
    /\ Idle
    /\ ner_model = None
    /\ \E outcome \in LoadOutcomes :
        LET r == BiomedicalNER_init(outcome, loads["ner"] + 1)
        IN  /\ ner_model' = IF r.raised THEN ner_model ELSE r.self
            /\ lifecycle' = IF r.raised THEN "startup_failed" ELSE lifecycle
            /\ loads' = [loads EXCEPT !["ner"] = @ + 1]
            /\ load_failed' = [load_failed EXCEPT !["ner"] = r.raised]
            /\ UNCHANGED <<summarizer_model, req, resp, calls, trace, tasks, current>>

\* summarizer_model = BiomedicalSummarizer()  (biomedical_summarizer.py:98,
\* demo.py:33).
MainConstructSummarizer ==
    /\ lifecycle = "imported"
    /\ Idle
    /\ summarizer_model = None
    /\ \E outcome \in LoadOutcomes :
        LET r == BiomedicalSummarizer_init(outcome, loads["summarizer"] + 1)
        IN  /\ summarizer_model' = IF r.raised THEN summarizer_model ELSE r.self
            /\ lifecycle' = IF r.raised THEN "startup_failed" ELSE lifecycle
            /\ loads' = [loads EXCEPT !["summarizer"] = @ + 1]
            /\ load_failed' = [load_failed EXCEPT !["summarizer"] = r.raised]
            /\ UNCHANGED <<ner_model, req, resp, calls, trace, tasks, current>>

\* One direct call of a service method, whose run gave r: the value it
\* returned or the exception it raised.
DirectCall(op, input_data, r) ==
    /\ req' = [op |-> op, input |-> input_data]
    /\ resp' = IF r.raised THEN Raise(r.exc) ELSE Ok(r.value)
    /\ calls' = r.calls
    /\ trace' = r.trace
    /\ UNCHANGED <<ner_model, summarizer_model, lifecycle, loads, load_failed, tasks, current>>

\* ner_model.print_entities(text)  (biomedical_ner.py:87).
MainPrintEntities ==
    /\ lifecycle = "imported"
    /\ Idle
    /\ ner_model # None
    /\ \E text \in Texts, out \in NerOutcomes :
           DirectCall("print_entities", [text |-> text],
                      BiomedicalNER_print_entities(ner_model, text, out))

\* summarizer_model.print_summary(text, ...)  (biomedical_summarizer.py:110).
MainPrintSummary ==
    /\ lifecycle = "imported"
    /\ Idle
    /\ summarizer_model # None
    /\ \E text \in Texts, kwargs \in KwargChoices, out \in SumOutcomes :
           DirectCall("print_summary", [text |-> text, kwargs |-> kwargs],
                      BiomedicalSummarizer_print_summary(summarizer_model, text, kwargs, out))

\* The call is over: its value was used or its exception reported.
CallEnds ==
    /\ ~Idle
    /\ req' = None
    /\ resp' = None
    /\ calls' = <<>>
    /\ trace' = <<>>
    /\ UNCHANGED <<ner_model, summarizer_model, lifecycle, loads, load_failed, tasks, current>>

NextService ==
    \/ MainConstructNER
    \/ MainConstructSummarizer
    \/ MainPrintEntities
    \/ MainPrintSummary
    \/ CallEnds

SpecService == Init /\ [][NextService]_vars

-----------------------------------------------------------------------------
(* What the properties below speak of. *)

Answered == req # None

TextOps == {"extract_entities", "analyze", "summarize", "summarize_simple",
            "extract_and_summarize"}

\* The engines an operation needs.
Needs(op) ==
    CASE op \in {"extract_entities", "analyze"} -> {"ner"}
      [] op \in {"summarize", "summarize_simple"} -> {"summarizer"}
      [] op = "extract_and_summarize" -> {"ner", "summarizer"}
      [] OTHER -> {}

HandleOf(e) == IF e = "ner" THEN ner_model ELSE summarizer_model

\* Empty or whitespace-only, stated on the characters.
Blank(t) == \A i \in 1..Len(t) : t[i] \in Whitespace

\* The response carries a result field of an engine.
HasEntities == "entities" \in DOMAIN resp.body
HasSummary == "summary" \in DOMAIN resp.body

EngineCalled(e) == \E i \in 1..Len(calls) : calls[i].engine = e
SomeCallRaised == \E i \in 1..Len(calls) : calls[i].out.raised

-----------------------------------------------------------------------------
(* C1 *)

\* C1: with both engines loaded, a request of a text-accepting operation
\* whose text is empty or whitespace-only is answered 400 and carries
\* neither entities nor a summary.
C1_BlankTextIs400 ==
    (/\ Answered
     /\ req.op \in TextOps
     /\ ner_model # None
     /\ summarizer_model # None
     /\ Blank(req.input.text))
    => (resp.status = 400 /\ ~HasEntities /\ ~HasSummary)

-----------------------------------------------------------------------------
(* C2 *)

\* C2: the combined operation is all-or-nothing.  A 200 carries the entities
\* and the summary the two engines returned for the request's text; when a
\* call of either engine raised, the request failed (500) and carries
\* neither; no other response carries either.
C2_CombinedAllOrNothing ==
    (Answered /\ req.op = "extract_and_summarize") =>
        /\ resp.status = 200 =>
            /\ HasEntities /\ HasSummary
            /\ Len(calls) = 2
            /\ calls[1].engine = "ner" /\ calls[2].engine = "summarizer"
            /\ \A i \in 1..2 : calls[i].text = req.input.text /\ ~calls[i].out.raised
            /\ resp.body.original_text = req.input.text
            /\ resp.body.summary = calls[2].out.value
            /\ Len(resp.body.entities) = Len(calls[1].out.value)
            /\ \A i \in 1..Len(resp.body.entities) :
                   /\ resp.body.entities[i].word = calls[1].out.value[i].word
                   /\ resp.body.entities[i].start = calls[1].out.value[i].start
                   /\ resp.body.entities[i].end = calls[1].out.value[i].end
        /\ SomeCallRaised => resp.status = 500
        /\ resp.status # 200 => (~HasEntities /\ ~HasSummary)

\* The entity call returned, the summarization call raised, and the request
\* failed as a whole.
C2_Witness ==
    /\ Answered
    /\ req.op = "extract_and_summarize"
    /\ Len(calls) = 2
    /\ ~calls[1].out.raised
    /\ Len(calls[1].out.value) > 0
    /\ calls[2].out.raised
    /\ resp.status = 500

-----------------------------------------------------------------------------
(* C3 *)

\* C3: a request made while an engine it needs is None is answered 503 and
\* invokes no engine; with the needed engines loaded, a request with a
\* non-blank text whose engine calls do not raise is answered 200.
C3_UnreadyIs503ThenSucceeds ==
    Answered =>
        /\ (\E e \in Needs(req.op) : HandleOf(e) = None)
               => (resp.status = 503 /\ calls = <<>>)
        /\ (/\ \A e \in Needs(req.op) : HandleOf(e) # None
            /\ req.op \in TextOps => ~Blank(req.input.text)
            /\ ~SomeCallRaised)
               => resp.status = 200

\* After a successful startup the combined operation succeeded.
C3_Witness ==
    /\ Answered
    /\ lifecycle = "started"
    /\ req.op = "extract_and_summarize"
    /\ ~Blank(req.input.text)
    /\ resp.status = 200

-----------------------------------------------------------------------------
(* C4 *)

\* C4: a failed load makes startup raise and leaves that engine's global
\* None; startup returns normally only with both engines loaded.
C4_StartupFailurePropagates ==
    /\ \A e \in Engines : load_failed[e] => (lifecycle = "startup_failed" /\ HandleOf(e) = None)
    /\ lifecycle = "startup_failed" => \E e \in Engines : load_failed[e]
    /\ lifecycle = "started" => \A e \in Engines : HandleOf(e) # None

\* The summarizer's load failed after the NER service had been constructed.
C4_Witness ==
    /\ lifecycle = "startup_failed"
    /\ load_failed["summarizer"]
    /\ ner_model # None
    /\ summarizer_model = None

-----------------------------------------------------------------------------
(* C5 *)

\* C5: a failed load is never retried.  Once an engine's load has failed,
\* its global is None in every state, health reports it not loaded, every
\* request that needs it is answered 503, and no step enters its load_model
\* again.
C5_FailedLoadNeverRetried ==
    /\ [](\A e \in Engines : load_failed[e] =>
            /\ HandleOf(e) = None
            /\ (Answered /\ req.op = "health") => resp.body.models_loaded[e] = FALSE
            /\ (Answered /\ e \in Needs(req.op)) => resp.status = 503)
    /\ [][\A e \in Engines : load_failed[e] => (load_failed'[e] /\ loads'[e] = loads[e])]_vars

\* After the summarizer's load failed, health reports it not loaded (and the
\* NER service loaded).
C5_Witness ==
    /\ load_failed["summarizer"]
    /\ Answered
    /\ req.op = "health"
    /\ resp.body.models_loaded["ner"]
    /\ ~resp.body.models_loaded["summarizer"]

-----------------------------------------------------------------------------
(* C6 *)

\* C6: no request changes a handle.  A step that starts or ends a request
\* leaves ner_model and summarizer_model as they were; a step that changes
\* either is the startup step.
C6_RequestsLeaveHandles ==
    [][/\ req' # req => (ner_model' = ner_model /\ summarizer_model' = summarizer_model)
       /\ (ner_model' # ner_model \/ summarizer_model' # summarizer_model)
              => (lifecycle = "imported" /\ lifecycle' # "imported")]_vars

\* A request failed in an engine call and both services are still there.
C6_Witness ==
    /\ Answered
    /\ resp.status = 500
    /\ SomeCallRaised
    /\ ner_model # None
    /\ summarizer_model # None

-----------------------------------------------------------------------------
(* C7 *)

\* The handler of an operation, run on globals g.
Dispatch(op, g, input_data, eng) ==
    CASE op = "root" -> root(g)
      [] op = "health" -> health_check(g)
      [] op = "extract_entities" -> extract_entities(g, input_data, eng)
      [] op = "analyze" -> analyze_text(g, input_data, eng)
      [] op = "summarize" -> summarize_text(g, input_data, eng)
      [] op = "summarize_simple" -> summarize_simple(g, input_data, eng)
      [] op = "extract_and_summarize" -> extract_and_summarize(g, input_data, eng)

\* The engine outcomes the answered request saw (any, for an engine it did
\* not call).
OutcomeSeen(e) ==
    IF EngineCalled(e)
    THEN (CHOOSE c \in {calls[i] : i \in 1..Len(calls)} : c.engine = e).out
    ELSE Raise("not called")

SeenOracle == [ner |-> OutcomeSeen("ner"), summarizer |-> OutcomeSeen("summarizer")]

LoadedNER == BiomedicalNER_init("ok", 1).self
LoadedSummarizer == BiomedicalSummarizer_init("ok", 1).self

\* C7: a single-purpose operation invokes only its own engine, and its
\* response is the one the same request gets with the other service's global
\* None and with it loaded.
C7_OtherServiceIrrelevant ==
    /\ (Answered /\ req.op \in {"extract_entities", "analyze"}) =>
        /\ ~EngineCalled("summarizer")
        /\ \A other \in {None, LoadedSummarizer} :
               Dispatch(req.op, [Globals EXCEPT !.summarizer_model = other],
                        req.input, SeenOracle).resp = resp
    /\ (Answered /\ req.op \in {"summarize", "summarize_simple"}) =>
        /\ ~EngineCalled("ner")
        /\ \A other \in {None, LoadedNER} :
               Dispatch(req.op, [Globals EXCEPT !.ner_model = other],
                        req.input, SeenOracle).resp = resp

\* Entities were extracted with the summarizer not loaded.
C7_Witness ==
    /\ Answered
    /\ req.op = "extract_entities"
    /\ summarizer_model = None
    /\ resp.status = 200
    /\ resp.body.total_entities > 0

-----------------------------------------------------------------------------
(* C8 *)

Position(x, s) == CHOOSE i \in 1..Len(s) : s[i] = x

\* C8: a request is validated, then readiness is consulted, then the
\* services are invoked.  A blank text is answered 400, whether or not the
\* needed engine is loaded; the validation step comes before the readiness
\* step; no engine is invoked without the validation step before it.
C8_ValidateThenReadiness ==
    (Answered /\ req.op \in TextOps) =>
        /\ Blank(req.input.text) => (resp.status = 400 /\ calls = <<>>)
        /\ (InSeq("validate", trace) /\ InSeq("readiness", trace))
               => Position("validate", trace) < Position("readiness", trace)
        /\ calls # <<>> => InSeq("validate", trace)

-----------------------------------------------------------------------------
(* C9 *)

\* The whitespace word count, stated on the characters: the positions where
\* a word starts.
CountWords(t) ==
    Cardinality({i \in 1..Len(t) : ~IsSpace(t[i]) /\ (i = 1 \/ IsSpace(t[i - 1]))})

\* C9: summarize never divides by zero.  A call of the summarization service
\* on a text of no word raises the input error with no engine call and no
\* ratio computed; whenever the ratio is computed the text has a word; no
\* call ends in ZeroDivisionError.
C9_NoDivisionByZero ==
    (Answered /\ req.op = "print_summary") =>
        /\ CountWords(req.input.text) = 0 =>
            /\ resp.raised
            /\ resp.exc = "ValueError: Text input cannot be empty"
            /\ calls = <<>>
            /\ ~InSeq("ratio", trace)
        /\ InSeq("ratio", trace) => CountWords(req.input.text) > 0
        /\ resp.raised => resp.exc # "ZeroDivisionError: division by zero"

\* A whitespace-only text was refused by the service itself.
C9_Witness ==
    /\ Answered
    /\ req.op = "print_summary"
    /\ Len(req.input.text) > 0
    /\ CountWords(req.input.text) = 0
    /\ resp.raised
    /\ trace = <<"svc_loaded", "svc_validate">>

-----------------------------------------------------------------------------
(* C10 *)

\* h hundredths is num / den rounded to 2 decimals: within half a hundredth.
IsRounded(h, num, den) ==
    /\ den > 0
    /\ 2 * (100 * num - h * den) <= den
    /\ 2 * (h * den - 100 * num) <= den

\* C10: in every successful summarization original_length is the word count
\* of the request text, summary_length the word count of the summary, and
\* compression_ratio their quotient rounded to 2 decimals; the combined
\* operation returns the same three values.
C10_SummaryMetrics ==
    /\ (Answered /\ req.op \in {"summarize", "extract_and_summarize"} /\ resp.status = 200) =>
        /\ resp.body.original_length = CountWords(req.input.text)
        /\ resp.body.summary_length = CountWords(resp.body.summary)
        /\ resp.body.summary = calls[Len(calls)].out.value
        /\ IsRounded(resp.body.compression_ratio,
                     resp.body.summary_length, resp.body.original_length)
    /\ (Answered /\ req.op = "summarize_simple" /\ resp.status = 200) =>
        /\ resp.body.original_text = req.input.text
        /\ IsRounded(resp.body.compression_ratio,
                     CountWords(resp.body.summary), CountWords(req.input.text))

\* The combined operation returned a ratio that needed rounding: 2 words of
\* summary for 3 words of text, 0.67.
C10_Witness ==
    /\ Answered
    /\ req.op = "extract_and_summarize"
    /\ resp.status = 200
    /\ resp.body.original_length = 3
    /\ resp.body.summary_length = 2
    /\ resp.body.compression_ratio = 67

-----------------------------------------------------------------------------
(* C11 *)

CallsOf(e) == {i \in 1..Len(calls) : calls[i].engine = e}

\* C11: an engine call that raises ends the request 500 with no result and
\* nothing is tried after it; each engine is invoked at most once in a
\* request; a 500 comes only from an engine call that raised, so a request
\* refused with 400 or 503 keeps that status; every response carries one of
\* 200, 400, 503, 500.
C11_EngineFailureIs500 ==
    Answered =>
        /\ resp.status \in {200, 400, 503, 500}
        /\ SomeCallRaised => (resp.status = 500 /\ ~HasEntities /\ ~HasSummary)
        /\ \A i \in 1..Len(calls) : calls[i].out.raised => i = Len(calls)
        /\ \A e \in Engines : Cardinality(CallsOf(e)) <= 1
        /\ resp.status = 500 => SomeCallRaised
        /\ resp.status \in {400, 503} => calls = <<>>
        /\ (\E e \in Needs(req.op) : HandleOf(e) = None) => resp.status = 503

\* The summarization engine raised and the request ended 500 after that one
\* call.
C11_Witness ==
    /\ Answered
    /\ req.op = "summarize"
    /\ Len(calls) = 1
    /\ calls[1].out.raised
    /\ resp.status = 500
    /\ resp.body.detail = "RuntimeError"

-----------------------------------------------------------------------------
(* C12 *)

\* How many times startup_event may run in one process.
MaxStartups == 2

\* startup_event run again in a process where it has succeeded (a second
\* lifespan of the same app object, or a direct call of the coroutine): the
\* body of lines 64-80 has no guard on the globals, so it runs as the first
\* time, on the globals as they are now.
StartupAgain ==
    /\ lifecycle = "started"
    /\ Idle
    /\ loads["ner"] < MaxStartups
    /\ \E outcome \in [ner : LoadOutcomes, summarizer : LoadOutcomes] :
        LET r == startup_event(Globals, loads, outcome)
        IN  /\ ner_model' = r.g.ner_model
            /\ summarizer_model' = r.g.summarizer_model
            /\ lifecycle' = IF r.raised THEN "startup_failed" ELSE "started"
            /\ loads' = [e \in Engines |->
                            loads[e] + (IF InSeq(e, r.entered) THEN 1 ELSE 0)]
            /\ load_failed' = [e \in Engines |-> load_failed[e] \/ e \in r.failed]
            /\ UNCHANGED <<req, resp, calls, trace, tasks, current>>

NextRestart ==
    \/ Next
    \/ StartupAgain

SpecRestart == Init /\ [][NextRestart]_vars

\* C12: each engine is constructed at most once in a process, and a handle,
\* once bound, is the object of that first construction, however many times
\* startup_event runs.
C12_InitializeIdempotent ==
    \A e \in Engines :
        /\ loads[e] <= 1
        /\ HandleOf(e) # None => HandleOf(e).id = 1

-----------------------------------------------------------------------------
(* C13 *)

\* The entities a direct call of the NER service returned.
ReturnedEntities ==
    IF Answered /\ req.op = "print_entities" /\ ~resp.raised THEN resp.value ELSE <<>>

\* C13: for a non-empty text, the entities extract returns are in
\* non-decreasing start order, and each has start <= end and a confidence
\* between 0 and 1 (0 and 100 hundredths), whatever spans the engine returned.
C13_EntitiesOrderedAndBounded ==
    (Answered /\ req.op = "print_entities" /\ req.input.text # <<>>) =>
        /\ \A i, j \in 1..Len(ReturnedEntities) :
               i < j => ReturnedEntities[i].start <= ReturnedEntities[j].start
        /\ \A i \in 1..Len(ReturnedEntities) :
               /\ ReturnedEntities[i].start <= ReturnedEntities[i].end
               /\ 0 <= ReturnedEntities[i].score
               /\ ReturnedEntities[i].score <= 100

-----------------------------------------------------------------------------
(* C14 *)

\* The errors the services raise when their pipeline attribute is None.
NotLoadedProperly ==
    {"ValueError: Model not loaded properly",
     "ValueError: Summarization model not loaded properly"}

\* C14: a handle that is not None has its pipeline loaded (a constructor
\* whose load failed raised and left the global None); no response carries
\* the services' "not loaded properly" error; a request that needs an engine
\* whose handle is None is answered 503, and 503 is answered only then.
C14_HandleHasPipeline ==
    /\ ner_model # None => ner_model.nlp # None
    /\ summarizer_model # None => summarizer_model.summarizer # None
    /\ Answered =>
        /\ "detail" \in DOMAIN resp.body => resp.body.detail \notin NotLoadedProperly
        /\ (\E e \in Needs(req.op) : HandleOf(e) = None) <=> resp.status = 503

\* The summarizer's load failed at startup after the NER service was bound:
\* the summarizer handle is None, the NER handle has its pipeline, and a
\* summarization request is answered 503.
C14_Witness ==
    /\ Answered
    /\ load_failed["summarizer"]
    /\ summarizer_model = None
    /\ ner_model # None
    /\ ner_model.nlp # None
    /\ req.op = "summarize"
    /\ resp.status = 503

-----------------------------------------------------------------------------
(* The server as its event loop runs it: uvicorn.run(app) (server.py:292)   *)
(* is one process with one loop.  Every handler and startup_event is an     *)
(* `async def`, so it runs on the loop, and the loop runs another coroutine *)
(* only when the running one finishes or reaches an await.  A handler is    *)
(* walked one step of its trace at a time; requests arrive at any moment.   *)

\* The handlers with each engine call handed to a thread pool and awaited,
\* and startup awaiting its second load.
AwaitPoints_executor == {"engine_ner", "engine_summarizer", "load_summarizer"}

\* The steps at which a coroutine of server.py has an await expression, so
\* that the loop may run another coroutine while the step is in progress:
\* the engines are called as plain blocking calls, so there are none.
AwaitPoints == {}

AwaitsAt(step) == step \in AwaitPoints

\* The requests of the concurrent runs: each endpoint, one text.
LoopRequests ==
    {[op |-> op, input |-> NoInput] : op \in {"root", "health"}}
    \cup {[op |-> op, input |-> TextInput([text |-> <<"a">>])] :
              op \in {"extract_entities", "analyze", "summarize_simple"}}
    \cup {[op |-> op, input |-> SummarizationInput([text |-> <<"a">>])] :
              op \in {"summarize", "extract_and_summarize"}}

\* The engine outcomes of the concurrent runs: each engine answers or raises.
LoopOracles ==
    {[ner |-> n, summarizer |-> u] :
        n \in {Raise("RuntimeError"), Ok(<<>>)},
        u \in {Raise("RuntimeError"), Ok(<<"a">>)}}

\* startup_event up to `ner_model = BiomedicalNER()` (lines 65-71).
LoopStartupNER ==
    /\ lifecycle = "imported"
    /\ current = LoopIdle
    /\ \E outcome \in LoadOutcomes :
        LET a == BiomedicalNER_init(outcome, loads["ner"] + 1)
        IN  /\ ner_model' = IF a.raised THEN ner_model ELSE a.self
            /\ lifecycle' = IF a.raised THEN "startup_failed" ELSE "starting"
            /\ loads' = [loads EXCEPT !["ner"] = @ + 1]
            /\ load_failed' = [load_failed EXCEPT !["ner"] = @ \/ a.raised]
            /\ current' = IF a.raised \/ AwaitsAt("load_summarizer")
                          THEN LoopIdle ELSE StartupRuns
    /\ UNCHANGED <<summarizer_model, req, resp, calls, trace, tasks>>

\* startup_event from `summarizer_model = BiomedicalSummarizer()` on
\* (lines 73-80).
LoopStartupSummarizer ==
    /\ lifecycle = "starting"
    /\ \/ current = StartupRuns
       \/ current = LoopIdle /\ AwaitsAt("load_summarizer")
    /\ \E outcome \in LoadOutcomes :
        LET b == BiomedicalSummarizer_init(outcome, loads["summarizer"] + 1)
        IN  /\ summarizer_model' = IF b.raised THEN summarizer_model ELSE b.self
            /\ lifecycle' = IF b.raised THEN "startup_failed" ELSE "started"
            /\ loads' = [loads EXCEPT !["summarizer"] = @ + 1]
            /\ load_failed' = [load_failed EXCEPT !["summarizer"] = @ \/ b.raised]
    /\ current' = LoopIdle
    /\ UNCHANGED <<ner_model, req, resp, calls, trace, tasks>>

\* A request arrives on a free connection; its coroutine is not started yet.
LoopAccept ==
    \E t \in Tasks, r \in LoopRequests :
        /\ tasks[t] = FreeTask
        /\ tasks' = [tasks EXCEPT ![t] = [st |-> "ready", op |-> r.op, input |-> r.input]]
        /\ UNCHANGED <<ner_model, summarizer_model, lifecycle, loads, load_failed,
                       req, resp, calls, trace, current>>

\* The loop, running nothing, starts the coroutine of a waiting request: the
\* handler reads the globals as they are now (`seen` is the lifecycle it ran
\* in) and is at the first step of its trace.  A handler with no step (root,
\* health_check) returns at once.
LoopRun ==
    /\ current = LoopIdle
    /\ \E t \in Tasks, eng \in LoopOracles :
        /\ tasks[t].st = "ready"
        /\ LET r == Dispatch(tasks[t].op, Globals, tasks[t].input, eng)
           IN  IF r.trace = <<>>
               THEN /\ tasks' = [tasks EXCEPT ![t] =
                            [st |-> "done", seen |-> lifecycle, status |-> r.resp.status]]
                    /\ current' = LoopIdle
               ELSE /\ tasks' = [tasks EXCEPT ![t] =
                            [st |-> "running", seen |-> lifecycle, status |-> r.resp.status,
                             trace |-> r.trace, pc |-> 1]]
                    /\ current' = IF AwaitsAt(r.trace[1]) THEN LoopIdle ELSE TaskRuns(t)
    /\ UNCHANGED <<ner_model, summarizer_model, lifecycle, loads, load_failed,
                   req, resp, calls, trace>>

\* The step a running handler is at ends.  The handler goes on only if the
\* loop is running it, or the step was awaited and the loop is free to
\* resume it; after its last step the handler has returned.
LoopStep ==
    \E t \in Tasks :
        /\ tasks[t].st = "running"
        /\ \/ current = TaskRuns(t)
           \/ current = LoopIdle /\ AwaitsAt(tasks[t].trace[tasks[t].pc])
        /\ IF tasks[t].pc = Len(tasks[t].trace)
           THEN /\ tasks' = [tasks EXCEPT ![t] =
                        [st |-> "done", seen |-> tasks[t].seen, status |-> tasks[t].status]]
                /\ current' = LoopIdle
           ELSE /\ tasks' = [tasks EXCEPT ![t].pc = @ + 1]
                /\ current' = IF AwaitsAt(tasks[t].trace[tasks[t].pc + 1])
                              THEN LoopIdle ELSE TaskRuns(t)
        /\ UNCHANGED <<ner_model, summarizer_model, lifecycle, loads, load_failed,
                       req, resp, calls, trace>>

\* The response of a returned handler is sent and the connection is free.
LoopRespond ==
    \E t \in Tasks :
        /\ tasks[t].st = "done"
        /\ tasks' = [tasks EXCEPT ![t] = FreeTask]
        /\ UNCHANGED <<ner_model, summarizer_model, lifecycle, loads, load_failed,
                       req, resp, calls, trace, current>>

NextLoop ==
    \/ LoopStartupNER
    \/ LoopStartupSummarizer
    \/ LoopAccept
    \/ LoopRun
    \/ LoopStep
    \/ LoopRespond

SpecLoop == Init /\ [][NextLoop]_vars

-----------------------------------------------------------------------------
(* C15 *)

Running(t) == tasks[t].st = "running"

\* The handler of connection t is inside a call of an inference engine.
InEngineCall(t) ==
    /\ Running(t)
    /\ tasks[t].trace[tasks[t].pc] \in {"engine_ner", "engine_summarizer"}

\* C15: at no time are two inference calls in progress (on one engine or on
\* two); a handler that has started has the loop until it returns, so at
\* most one handler is between its first step and its return; and no handler
\* runs, or has read the globals, between the NER load and the summarizer
\* load of startup.
C15_EngineCallsSerialized ==
    /\ Cardinality({t \in Tasks : InEngineCall(t)}) <= 1
    /\ Cardinality({t \in Tasks : Running(t)}) <= 1
    /\ \A t \in Tasks : Running(t) => current = TaskRuns(t)
    /\ lifecycle = "starting" => \A t \in Tasks : ~Running(t)
    /\ \A t \in Tasks : tasks[t].st \in {"running", "done"} => tasks[t].seen # "starting"

\* One request is inside a call of the NER engine while another request that
\* needs the same engine has arrived and waits for the loop.
C15_Witness ==
    \E t, u \in Tasks :
        /\ t # u
        /\ InEngineCall(t)
        /\ tasks[t].trace[tasks[t].pc] = "engine_ner"
        /\ tasks[u].st = "ready"
        /\ tasks[u].op = "analyze"

=============================================================================
